---- MODULE Spec2Model ----
(***************************************************************************)
(* The mmap / munmap / page-fault extensions of xv6 (sysproc.c), as a      *)
(* state machine over the per-process mapping table, the page table, the   *)
(* physical frames and the backing inodes.                                 *)
(*                                                                         *)
(* TLC's integers are 32-bit signed, so the 32-bit machine (4096-byte      *)
(* pages, 0x60000000..0x80000000 arena) is modelled by a machine of        *)
(* AddrBits-bit words and 2^PGSHIFT-byte pages that keeps the proportions  *)
(* of the original: the arena is [3/8, 1/2) of the address space, (int)    *)
(* casts wrap at half the word and uint arithmetic is taken modulo the     *)
(* word.  With AddrBits = 32 and PGSHIFT = 12 every value is the source's. *)
(***************************************************************************)
EXTENDS Integers, Sequences, FiniteSets, Bags, TLC

\* ------------------------------------------------------------------------
\* Bounds of the model
\* ------------------------------------------------------------------------
AddrBits == 11          \* width of a machine word (the source: 32)
PGSHIFT == 2            \* log2 of the page size (the source: 12)
MaxProcs == 2           \* process-table slots modelled
MaxFrames == 3          \* physical frames on the kernel free list
MaxMaps == 2            \* the user programs hold at most this many mappings
MaxGrowth == 4          \* pages a mapping may reach before the programs stop touching

\* ------------------------------------------------------------------------
\* Program constants
\* ------------------------------------------------------------------------
MAX_MAPPINGS == 32      \* slots of proc.memoryMappings
NOFILE == 16            \* open files per process

Word == 2 ^ AddrBits
PGSIZE == 2 ^ PGSHIFT
MMAP_AREA_START == 3 * (2 ^ (AddrBits - 3))     \* 0x60000000 = 3 * 2^29
MMAP_AREA_END == 2 ^ (AddrBits - 1)             \* 0x80000000 = 2^31
UINT_MAX == Word - 1                            \* 0xFFFFFFFF

MAP_SHARED == "MAP_SHARED"
MAP_PRIVATE == "MAP_PRIVATE"
MAP_ANONYMOUS == "MAP_ANONYMOUS"
MAP_FIXED == "MAP_FIXED"
MAP_GROWSUP == "MAP_GROWSUP"
PTE_P == "PTE_P"
PTE_W == "PTE_W"
PTE_U == "PTE_U"
PTE_COW == "PTE_COW"

\* ------------------------------------------------------------------------
\* C arithmetic
\* ------------------------------------------------------------------------
\* conversion to uint: the value modulo the word
U32(x) == x % Word
\* the cast (int)x of a uint
ToInt(x) == IF U32(x) >= Word \div 2 THEN U32(x) - Word ELSE U32(x)
\* the C remainder a % b for b > 0, which has the sign of a
CRem(a, b) == IF a >= 0 THEN a % b ELSE -((-a) % b)
PGROUNDUP(sz) == (U32(sz + PGSIZE - 1) \div PGSIZE) * PGSIZE
PGROUNDDOWN(a) == (U32(a) \div PGSIZE) * PGSIZE

Procs == 1 .. MaxProcs
Frames == 1 .. MaxFrames
Slots == 0 .. (MAX_MAPPINGS - 1)

\* a zeroed struct mem_mapping
ZeroMapping ==
  [addr |-> 0, length |-> 0, flags |-> {}, fd |-> 0, originalLength |-> 0,
   allocated |-> FALSE]

\* The array memoryMappings is kept as the map of its slots that are not
\* zero: a slot outside the map holds a zeroed descriptor.
MapAt(tbl, i) == IF i \in DOMAIN tbl THEN tbl[i] ELSE ZeroMapping
Sparse(f) == [k \in {j \in DOMAIN f : f[j] # ZeroMapping} |-> f[k]]
Store(tbl, i, m) == Sparse([k \in Slots |-> IF k = i THEN m ELSE MapAt(tbl, k)])

VARIABLES
  state,            \* proc.state of every process-table slot
  killed,           \* proc.killed
  num_mappings,     \* proc.num_mappings
  memoryMappings,   \* proc.memoryMappings[32]
  pgdir,            \* proc.pgdir: page va -> [pa, flags], absent when the PTE is 0
  ofile,            \* proc.ofile[NOFILE]: fd -> inode number, absent when closed
  freelist,         \* the frame allocator's free list
  mem,              \* contents of the physical frames handed out by kalloc
  idata,            \* contents of every inode, one value per page-sized block
  panicked,         \* the kernel has called panic()
  kstack,           \* what each kernel stack holds where sys_mmap's local
                    \* new_mapping keeps the field allocated
  pc,               \* where each process stands: at "user" it runs user code,
                    \* else it is inside fork (np is the child) or inside exit
  last              \* the last kernel entry: operation, arguments, return value

vars ==
  <<state, killed, num_mappings, memoryMappings, pgdir, ofile, freelist, mem,
    idata, panicked, kstack, pc, last>>

Inodes == {1}
\* bytes a buffer or a frame may hold before anything was stored in it
JunkBytes == {1, 2}
\* one byte of a frame or a file: its value, and whether it was stored by a
\* user write through a mapping that is file-backed and not MAP_SHARED
Byte(v, t) == [val |-> v, priv |-> t]
\* a page filled with one byte
Fill(b) == [o \in 0 .. (PGSIZE - 1) |-> b]

\* the position of a process that is not inside fork or exit
AtUser == [at |-> "user", np |-> 0]

Init ==
  /\ state = [p \in Procs |-> IF p = 1 THEN "RUNNING" ELSE "UNUSED"]
  /\ killed = [p \in Procs |-> FALSE]
  /\ num_mappings = [p \in Procs |-> 0]
  /\ memoryMappings = [p \in Procs |-> Sparse(<<>>)]
  /\ pgdir = [p \in Procs |-> [a \in {} |-> 0]]
  /\ ofile = [p \in Procs |-> [fd \in {f \in {0, 3} : p = 1} |-> 1]]
  /\ freelist = [i \in 1 .. MaxFrames |-> i]
  /\ mem = [f \in {} |-> Fill(Byte(0, FALSE))]
  /\ idata = [i \in Inodes |->
                [k \in 1 .. (2 * PGSIZE) |->
                   IF k <= PGSIZE THEN Byte(65, FALSE) ELSE Byte(66, FALSE)]]
  /\ panicked = FALSE
  /\ kstack \in {k \in [Procs -> BOOLEAN] : \A p \in Procs : p # 1 => ~k[p]}
  /\ pc = [p \in Procs |-> AtUser]
  /\ last = [op |-> "none", proc |-> 0, args |-> <<>>, ret |-> 0]

\* proc.ofile[fd]: the inode of the open file, 0 when the slot is empty
FileAt(p, fd) == IF fd \in DOMAIN ofile[p] THEN ofile[p][fd] ELSE 0

\* the frames with frame f holding page pg
Filled(frames, f, pg) ==
  [g \in DOMAIN frames \cup {f} |-> IF g = f THEN pg ELSE frames[g]]

\* a process that is executing user code and may enter the kernel
Running(p) ==
  /\ ~panicked
  /\ state[p] = "RUNNING"
  /\ pc[p] = AtUser
  /\ ~killed[p]
  /\ num_mappings[p] <= MAX_MAPPINGS

\* ------------------------------------------------------------------------
\* find_available_address
\* ------------------------------------------------------------------------
\* the test of the inner loop: mapping m is in the way of [addr, addr + length)
OverlapClosed(m, addr, length) ==
  LET existing_start == m.addr
      existing_end == U32(existing_start + PGROUNDUP(m.length))
      new_end == U32(addr + length)
  IN  existing_start < new_end /\ existing_end >= addr

Overlap(m, addr, length) ==
  LET existing_start == m.addr
      existing_end == U32(existing_start + PGROUNDUP(m.length))
      new_end == U32(addr + length)
  IN  existing_start < new_end /\ existing_end > addr

\* the while loop, entered with its variable at addr
RECURSIVE ScanFrom(_, _, _)
ScanFrom(p, addr, length) ==
  IF U32(addr + length) <= MMAP_AREA_END
  THEN IF \E i \in 0 .. (num_mappings[p] - 1) :
            Overlap(MapAt(memoryMappings[p], i), addr, length)
       THEN ScanFrom(p, U32(addr + PGSIZE), length)
       ELSE addr
  ELSE 0

find_available_address(p, length) == ScanFrom(p, MMAP_AREA_START, length)

\* ------------------------------------------------------------------------
\* sys_mmap
\* ------------------------------------------------------------------------
\* the check of a non-null requested address
BadHint(addr) ==
  \/ ToInt(addr) < ToInt(MMAP_AREA_START)
  \/ ToInt(addr) > ToInt(MMAP_AREA_END - PGSIZE)
  \/ CRem(ToInt(addr), PGSIZE) # 0

BadFlags(flags) == ~(MAP_SHARED \in flags \/ MAP_PRIVATE \in flags)

BadAnonymous(flags, fd, offset) ==
  MAP_ANONYMOUS \in flags /\ (fd # -1 \/ offset # 0)

BadFixedUnaligned(addr, flags) ==
  MAP_FIXED \in flags /\ U32(addr) % PGSIZE # 0

BadFixed(addr, flags) ==
  MAP_FIXED \in flags /\ (U32(addr) = 0 \/ U32(addr) % PGSIZE # 0)

BadFd(p, flags, fd) ==
  /\ MAP_ANONYMOUS \notin flags
  /\ (fd < 0 \/ fd >= NOFILE \/ FileAt(p, fd) = 0)

\* the argument checks of sys_mmap, in the order of the code
MmapInvalid(p, addr, length, flags, fd, offset) ==
  \/ length <= 0
  \/ (U32(addr) # 0 /\ BadHint(addr))
  \/ BadFlags(flags)
  \/ BadAnonymous(flags, fd, offset)
  \/ BadFixed(addr, flags)
  \/ BadFd(p, flags, fd)

\* the address the mapping is placed at; 0 when the allocator finds none
PlaceAt(p, addr, length, flags) ==
  IF MAP_FIXED \in flags THEN U32(addr) ELSE find_available_address(p, length)

\* new_mapping: allocated is never assigned, so the descriptor stored
\* carries whatever the kernel stack held in its place
NewMapping(new_address, length, flags, fd, stack) ==
  [addr |-> new_address, length |-> length, flags |-> flags, fd |-> fd,
   originalLength |-> length, allocated |-> stack]

MmapCall(p, addr, length, prot, flags, fd, offset, r) ==
  [op |-> "mmap", proc |-> p,
   args |-> [addr |-> addr, length |-> length, prot |-> prot, flags |-> flags,
             fd |-> fd, offset |-> offset],
   ret |-> r]

sys_mmap(p, addr, length, prot, flags, fd, offset) ==
  /\ Running(p)
  /\ LET new_address == PlaceAt(p, addr, length, flags)
         n == num_mappings[p]
     IN  IF MmapInvalid(p, addr, length, flags, fd, offset)
            \/ (MAP_FIXED \notin flags /\ new_address = 0)
         THEN /\ last' = MmapCall(p, addr, length, prot, flags, fd, offset, -1)
              /\ UNCHANGED <<num_mappings, memoryMappings>>
         ELSE /\ last' = MmapCall(p, addr, length, prot, flags, fd, offset,
                                  ToInt(new_address))
              /\ IF n < MAX_MAPPINGS
                 THEN /\ memoryMappings' =
                           [memoryMappings EXCEPT ![p] =
                              Store(memoryMappings[p], n,
                                    NewMapping(new_address, length, flags, fd,
                                               kstack[p]))]
                      /\ num_mappings' = [num_mappings EXCEPT ![p] = n + 1]
                 ELSE \* the store goes past the end of the array: the table
                      \* keeps its 32 entries, and the count is incremented
                      \* from whatever the store left in it
                      /\ memoryMappings' = memoryMappings
                      /\ \E clobbered \in {n, new_address} :
                           num_mappings' =
                             [num_mappings EXCEPT ![p] = U32(clobbered + 1)]
  /\ UNCHANGED <<state, killed, pgdir, ofile, freelist, mem, idata, panicked,
                 kstack, pc>>

\* ------------------------------------------------------------------------
\* Page-table walker and file layer
\* ------------------------------------------------------------------------
NoPte == [pa |-> 0, flags |-> {}]

\* walkpgdir(pgdir, va, 0), dereferenced: the PTE of va's page, or 0
walkpgdir(p, va) ==
  IF PGROUNDDOWN(va) \in DOMAIN pgdir[p] THEN pgdir[p][PGROUNDDOWN(va)] ELSE NoPte

\* writei(ip, src, off, PGSIZE): -1 when off is past the end of the file,
\* else the inode's data with the page stored at off, the file growing to fit
writei(data, src, off) ==
  IF off > Len(data)
  THEN [r |-> -1, data |-> data]
  ELSE [r |-> PGSIZE,
        data |-> [k \in 1 .. (IF off + PGSIZE > Len(data) THEN off + PGSIZE
                                                           ELSE Len(data)) |->
                    IF k > off /\ k <= off + PGSIZE THEN src[k - off - 1]
                    ELSE data[k]]]

\* ------------------------------------------------------------------------
\* sys_munmap
\* ------------------------------------------------------------------------
\* the test that mapping map fully contains [addr, addr + length)
Contains(map, addr, length) ==
  /\ U32(addr) >= map.addr
  /\ U32(U32(addr) + length) <= U32(map.addr + map.length)

\* pages of this mapping are written to its file when unmapped
WritesBack(map) == MAP_SHARED \in map.flags /\ MAP_ANONYMOUS \notin map.flags

\* offset in the file at which the page of va is written
WriteBackOffset(map, va) == U32(va - map.addr)

\* the loop over the pages of [addr, addr + length), entered with its
\* variable at va and the inodes as in files: the inodes after the loop, and
\* whether a write failed
RECURSIVE Sweep(_, _, _, _, _)
Sweep(p, map, va, end, files) ==
  IF va < end
  THEN LET pte == walkpgdir(p, va)
           ip == FileAt(p, map.fd)
           w == writei(files[ip], mem[pte.pa], WriteBackOffset(map, va))
       IN  IF PTE_P \in pte.flags /\ WritesBack(map)
           THEN IF w.r < 0
                THEN [failed |-> TRUE, files |-> files]
                ELSE Sweep(p, map, U32(va + PGSIZE), end,
                           [files EXCEPT ![ip] = w.data])
           ELSE Sweep(p, map, U32(va + PGSIZE), end, files)
  ELSE [failed |-> FALSE, files |-> files]

\* the table after the entries above i moved down one slot
ShiftDown(tbl, i, n) ==
  Sparse([k \in Slots |->
            IF k >= i /\ k < n - 1 THEN MapAt(tbl, k + 1) ELSE MapAt(tbl, k)])

\* the indices the search loop examines: its body ends in an unconditional
\* break, so the loop never goes beyond its first iteration
Examined(p) == {i \in 0 .. (num_mappings[p] - 1) : i = 0}

MunmapCall(p, addr, length, r) ==
  [op |-> "munmap", proc |-> p, args |-> [addr |-> addr, length |-> length],
   ret |-> r]

sys_munmap(p, addr, length) ==
  /\ Running(p)
  /\ IF Examined(p) = {}
     THEN /\ last' = MunmapCall(p, addr, length, -1)
          /\ UNCHANGED <<num_mappings, memoryMappings, idata, panicked>>
     ELSE LET i == CHOOSE k \in Examined(p) : TRUE
              map == MapAt(memoryMappings[p], i)
              found_mapping == Contains(map, addr, length)
              nofile == /\ WritesBack(map)
                        /\ map.fd >= 0
                        /\ FileAt(p, map.fd) = 0
              swept == Sweep(p, map, U32(addr), U32(U32(addr) + length), idata)
          IN  IF found_mapping /\ nofile
              THEN \* panic("mapping failed 1")
                   /\ panicked' = TRUE
                   /\ last' = MunmapCall(p, addr, length, -1)
                   /\ UNCHANGED <<num_mappings, memoryMappings, idata>>
              ELSE IF found_mapping /\ swept.failed
              THEN \* return -1 out of the page loop
                   /\ idata' = swept.files
                   /\ last' = MunmapCall(p, addr, length, -1)
                   /\ UNCHANGED <<num_mappings, memoryMappings, panicked>>
              ELSE /\ idata' = IF found_mapping THEN swept.files ELSE idata
                   /\ memoryMappings' =
                        [memoryMappings EXCEPT
                           ![p] = ShiftDown(memoryMappings[p], i, num_mappings[p])]
                   /\ num_mappings' =
                        [num_mappings EXCEPT ![p] = num_mappings[p] - 1]
                   /\ last' = MunmapCall(p, addr, length,
                                         IF found_mapping THEN 0 ELSE -1)
                   /\ UNCHANGED panicked
  /\ UNCHANGED <<state, killed, pgdir, ofile, freelist, mem, kstack, pc>>

\* ------------------------------------------------------------------------
\* Frame allocator, file reads, page-table installation
\* ------------------------------------------------------------------------
\* kalloc(): the head of the free list, 0 when the list is empty
kalloc == IF freelist = <<>> THEN 0 ELSE Head(freelist)

\* readi(ip, buffer, off, PGSIZE) into a buffer that held the byte junk: the
\* bytes of the file from off, as many as there are, then what was there
readi(data, off, junk) ==
  [o \in 0 .. (PGSIZE - 1) |->
     IF off <= Len(data) /\ off + o + 1 <= Len(data)
     THEN data[off + o + 1]
     ELSE Byte(junk, FALSE)]

\* mappages(pgdir, va, PGSIZE, pa, perm): the page of va now maps frame pa
mappages(pd, va, pa, perm) ==
  [a \in DOMAIN pd \cup {PGROUNDDOWN(va)} |->
     IF a = PGROUNDDOWN(va) THEN [pa |-> pa, flags |-> perm \cup {PTE_P}]
     ELSE pd[a]]

\* mappages returns -1 when walkpgdir cannot get a page for the page table:
\* that needs kalloc to fail, so the free list left to it is empty
MappagesFails(free) == IF free = <<>> THEN BOOLEAN ELSE {FALSE}

\* ------------------------------------------------------------------------
\* page_fault_handler
\* ------------------------------------------------------------------------
\* the write to a copy-on-write page that the handler resolves first
IsCowFault(pte) == PTE_COW \in pte.flags /\ PTE_W \notin pte.flags

CowResolvedKeepsCow(pte, frame) ==
  [pa |-> frame, flags |-> pte.flags \cup {PTE_W}]

CowResolvedInPlace(pte, frame) ==
  [pa |-> pte.pa, flags |-> (pte.flags \cup {PTE_W}) \ {PTE_COW}]

\* the PTE after the copy: the new frame, writable, no longer copy-on-write
CowResolved(pte, frame) ==
  [pa |-> frame, flags |-> (pte.flags \cup {PTE_W}) \ {PTE_COW}]

InMappingClosed(map, va) ==
  va >= map.addr /\ va <= PGROUNDUP(U32(map.addr + map.length))

\* the test of the search loop: va lies in mapping map
InMapping(map, va) ==
  va >= map.addr /\ va < PGROUNDUP(U32(map.addr + map.length))

\* the indices whose mapping holds va; the loop takes the lowest
Holders(p, va) ==
  {i \in 0 .. (num_mappings[p] - 1) : InMapping(MapAt(memoryMappings[p], i), va)}

\* end_of_mapping of the MAP_GROWSUP check
GrowEnd(map) == U32(PGROUNDUP(U32(map.addr + map.length)) + PGSIZE)

\* next_mapping_start: the address of the first entry, in table order, that
\* starts at or above end_of_mapping; 0xFFFFFFFF when there is none
NextMappingStart(p, end_of_mapping) ==
  LET above == {j \in 0 .. (num_mappings[p] - 1) :
                  /\ MapAt(memoryMappings[p], j).addr >= end_of_mapping
                  /\ MapAt(memoryMappings[p], j).addr < UINT_MAX}
  IN  IF above = {} THEN UINT_MAX
      ELSE MapAt(memoryMappings[p], CHOOSE j \in above : \A k \in above : j <= k).addr

\* the MAP_GROWSUP check leaves the search loop without growing
GrowDenied(p, map) ==
  PGSIZE >= U32(NextMappingStart(p, GrowEnd(map)) - GrowEnd(map))

\* offset_into_file of the file-backed fill
FillOffset(map, va) == ToInt(PGROUNDDOWN(va)) - ToInt(map.addr)

FaultCall(p, va, r) ==
  [op |-> "fault", proc |-> p, args |-> [va |-> va], ret |-> r]

Panic(call) ==
  /\ panicked' = TRUE
  /\ last' = call
  /\ UNCHANGED <<memoryMappings, pgdir, mem>>

page_fault_handler(p, va) ==
  LET pte == walkpgdir(p, va)
      frame == kalloc
  IN
  IF pte # NoPte /\ IsCowFault(pte)
  THEN IF frame = 0
       THEN /\ Panic(FaultCall(p, va, -1))
            /\ UNCHANGED freelist
       ELSE /\ freelist' = Tail(freelist)
            /\ mem' = Filled(mem, frame, mem[pte.pa])
            /\ pgdir' = [pgdir EXCEPT ![p][PGROUNDDOWN(va)] = CowResolved(pte, frame)]
            /\ last' = FaultCall(p, va, 1)
            /\ UNCHANGED <<memoryMappings, panicked>>
  ELSE IF Holders(p, va) = {}
  THEN \* "Segmentation Fault"
       /\ last' = FaultCall(p, va, -1)
       /\ UNCHANGED <<memoryMappings, pgdir, freelist, mem, panicked>>
  ELSE LET i == CHOOSE k \in Holders(p, va) : \A h \in Holders(p, va) : k <= h
           map == MapAt(memoryMappings[p], i)
           nofile == map.fd > 0 /\ FileAt(p, map.fd) = 0
           file_backed == MAP_ANONYMOUS \notin map.flags
           ip == IF map.fd > 0 THEN FileAt(p, map.fd) ELSE 0
       IN  IF nofile \/ frame = 0
           THEN \* panic("mapping failed 1"), panic("mapping failed 2")
                /\ Panic(FaultCall(p, va, -1))
                /\ UNCHANGED freelist
           ELSE IF MAP_GROWSUP \in map.flags /\ GrowDenied(p, map)
           THEN \* break: the frame just allocated is dropped
                /\ freelist' = Tail(freelist)
                /\ last' = FaultCall(p, va, -1)
                /\ UNCHANGED <<memoryMappings, pgdir, mem, panicked>>
           ELSE IF file_backed /\ ip = 0
           THEN \* ilock(0)
                /\ freelist' = Tail(freelist)
                /\ Panic(FaultCall(p, va, -1))
           ELSE /\ memoryMappings' =
                     IF MAP_GROWSUP \in map.flags
                     THEN [memoryMappings EXCEPT
                             ![p] = Store(memoryMappings[p], i,
                                          [map EXCEPT !.length = map.length + PGSIZE])]
                     ELSE memoryMappings
                /\ \E failed \in MappagesFails(Tail(freelist)) :
                     IF failed
                     THEN \* kfree(mem): the frame goes back to the head of the list
                          /\ freelist' = freelist
                          /\ UNCHANGED <<mem, pgdir>>
                     ELSE /\ freelist' = Tail(freelist)
                          /\ \E junk \in JunkBytes :
                               mem' = Filled(mem, frame,
                                 IF file_backed
                                 THEN readi(idata[ip], U32(FillOffset(map, va)), junk)
                                 ELSE Fill(Byte(0, FALSE)))
                          /\ pgdir' = [pgdir EXCEPT
                               ![p] = mappages(pgdir[p], va, frame, {PTE_W, PTE_U})]
                /\ last' = FaultCall(p, va, 1)
                /\ UNCHANGED panicked

\* the access to va traps: the page is absent, or it is not writable
Faults(p, va) ==
  PTE_P \notin walkpgdir(p, va).flags \/ PTE_W \notin walkpgdir(p, va).flags

\* the page-fault trap: the handler runs, and a process whose fault it does
\* not resolve is killed
PageFault(p, va) ==
  /\ Running(p)
  /\ Faults(p, va)
  /\ page_fault_handler(p, va)
  /\ killed' = [killed EXCEPT ![p] = (last'.ret < 0)]
  /\ UNCHANGED <<state, num_mappings, ofile, idata, kstack, pc>>

\* a user store of byte v to va that does not trap
UserWrite(p, va, v) ==
  /\ Running(p)
  /\ ~Faults(p, va)
  /\ LET pte == walkpgdir(p, va)
         through == Holders(p, va)
         i == CHOOSE k \in through : \A h \in through : k <= h
         private == /\ through # {}
                    /\ MAP_ANONYMOUS \notin MapAt(memoryMappings[p], i).flags
                    /\ MAP_SHARED \notin MapAt(memoryMappings[p], i).flags
     IN  mem' = [mem EXCEPT ![pte.pa][va % PGSIZE] = Byte(v, private)]
  /\ last' = [op |-> "write", proc |-> p, args |-> [va |-> va, v |-> v], ret |-> 0]
  /\ UNCHANGED <<state, killed, num_mappings, memoryMappings, pgdir, ofile,
                 freelist, idata, panicked, kstack, pc>>

\* ------------------------------------------------------------------------
\* exit
\* ------------------------------------------------------------------------
\* exit taken as one step
exit(p) ==
  /\ ~panicked
  /\ state[p] = "RUNNING"
  /\ pc[p] = AtUser
  /\ ofile' = [ofile EXCEPT ![p] = [fd \in {} |-> 0]]
  /\ memoryMappings' = [memoryMappings EXCEPT ![p] = Sparse(<<>>)]
  /\ num_mappings' = [num_mappings EXCEPT ![p] = 0]
  /\ state' = [state EXCEPT ![p] = "ZOMBIE"]
  /\ last' = [op |-> "exit", proc |-> p, args |-> <<>>, ret |-> 0]
  /\ UNCHANGED <<killed, pgdir, freelist, mem, idata, panicked, kstack, pc>>

\* the trap return of a killed process
KilledExit(p) == killed[p] /\ exit(p)

\* ------------------------------------------------------------------------
\* fork and the scheduler
\* ------------------------------------------------------------------------
\* allocproc(): the first UNUSED slot of the process table, 0 when none
allocproc ==
  IF \E q \in Procs : state[q] = "UNUSED"
  THEN CHOOSE q \in Procs :
         state[q] = "UNUSED" /\ \A r \in Procs : state[r] = "UNUSED" => q <= r
  ELSE 0

\* copyuvm(pgdir, sz): a page table with copies of the pages below sz; sz
\* lies below the arena, so the copy holds no page of the arena
copyuvm(pd) == [a \in {} |-> NoPte]

\* the addresses the loop of fork visits in mapping map
ForkSweep(map) ==
  {U32(map.addr + k * PGSIZE) : k \in 0 .. ((map.length - 1) \div PGSIZE)}

CowPagesShared(p) ==
  {a \in DOMAIN pgdir[p] :
     /\ PTE_P \in pgdir[p][a].flags
     /\ \E i \in 0 .. (num_mappings[p] - 1) :
          /\ MAP_SHARED \in MapAt(memoryMappings[p], i).flags
          /\ a \in ForkSweep(MapAt(memoryMappings[p], i))}

\* the pages fork marks copy-on-write: present in the parent, in a mapping
\* with MAP_PRIVATE
CowPages(p) ==
  {a \in DOMAIN pgdir[p] :
     /\ PTE_P \in pgdir[p][a].flags
     /\ \E i \in 0 .. (num_mappings[p] - 1) :
          /\ MAP_PRIVATE \in MapAt(memoryMappings[p], i).flags
          /\ a \in ForkSweep(MapAt(memoryMappings[p], i))}

CowMarkedWritable(pte) == [pte EXCEPT !.flags = @ \cup {PTE_COW}]

\* the parent's PTE after *pte &= ~PTE_W; *pte |= PTE_COW
CowMarked(pte) == [pte EXCEPT !.flags = (@ \ {PTE_W}) \cup {PTE_COW}]

\* the mapping table of the child: the entries below num_mappings copied,
\* the slots above them as the process slot held them
ChildTable(p, np) ==
  Sparse([k \in Slots |->
            IF k < num_mappings[p] THEN MapAt(memoryMappings[p], k)
            ELSE MapAt(memoryMappings[np], k)])

\* the page tables after the loop of fork: the pages of CowPages marked in
\* the parent, and the child's fresh table holding a copy of each marked PTE
ForkPgdir(p, np) ==
  [pgdir EXCEPT
     ![p] = [a \in DOMAIN pgdir[p] |->
               IF a \in CowPages(p) THEN CowMarked(pgdir[p][a])
               ELSE pgdir[p][a]],
     ![np] = [a \in DOMAIN copyuvm(pgdir[p]) \cup CowPages(p) |->
                IF a \in CowPages(p) THEN CowMarked(pgdir[p][a])
                ELSE copyuvm(pgdir[p])[a]]]

ForkCall(p, r) == [op |-> "fork", proc |-> p, args |-> <<>>, ret |-> r]

fork(p) ==
  /\ Running(p)
  /\ LET np == allocproc
     IN  IF np = 0
         THEN /\ last' = ForkCall(p, -1)
              /\ UNCHANGED <<state, killed, num_mappings, memoryMappings, pgdir,
                             ofile, freelist, mem, idata, panicked, kstack, pc>>
         ELSE /\ num_mappings' = [num_mappings EXCEPT ![np] = num_mappings[p]]
              /\ pgdir' = ForkPgdir(p, np)
              /\ memoryMappings' = [memoryMappings EXCEPT ![np] = ChildTable(p, np)]
              /\ ofile' = [ofile EXCEPT ![np] = ofile[p]]
              /\ \E stack \in BOOLEAN : kstack' = [kstack EXCEPT ![np] = stack]
              /\ state' = [state EXCEPT ![np] = "RUNNABLE"]
              /\ last' = ForkCall(p, np)
              /\ UNCHANGED <<killed, freelist, mem, idata, panicked, pc>>

\* scheduler(): a RUNNABLE process is given a processor
scheduler(p) ==
  /\ ~panicked
  /\ state[p] = "RUNNABLE"
  /\ state' = [state EXCEPT ![p] = "RUNNING"]
  /\ UNCHANGED <<killed, num_mappings, memoryMappings, pgdir, ofile, freelist,
                 mem, idata, panicked, kstack, pc, last>>

\* ------------------------------------------------------------------------
\* fork and exit, statement by statement
\* ------------------------------------------------------------------------
\* process p is on a processor, inside the kernel at position at
InKernel(p, at) ==
  /\ ~panicked
  /\ state[p] = "RUNNING"
  /\ pc[p].at = at

AllocatedRunnable == "RUNNABLE"

\* the state allocproc leaves the slot it hands out in
Allocated == "EMBRYO"

\* copyuvm returns 0 when kalloc fails: the free list is empty
CopyuvmFails(free) == IF free = <<>> THEN BOOLEAN ELSE {FALSE}

\* fork, up to the return of allocproc
fork_alloc(p) ==
  /\ Running(p)
  /\ LET np == allocproc
     IN  IF np = 0
         THEN /\ last' = ForkCall(p, -1)
              /\ UNCHANGED <<state, kstack, pc>>
         ELSE /\ state' = [state EXCEPT ![np] = Allocated]
              /\ \E stack \in BOOLEAN : kstack' = [kstack EXCEPT ![np] = stack]
              /\ pc' = [pc EXCEPT ![p] = [at |-> "fork_copy", np |-> np]]
              /\ UNCHANGED last
  /\ UNCHANGED <<killed, num_mappings, memoryMappings, pgdir, ofile, freelist,
                 mem, idata, panicked>>

\* fork, from the copy of num_mappings to the end of the loop over the
\* mappings
fork_copy(p) ==
  /\ InKernel(p, "fork_copy")
  /\ LET np == pc[p].np
     IN  /\ num_mappings' = [num_mappings EXCEPT ![np] = num_mappings[p]]
         /\ \E failed \in CopyuvmFails(freelist) :
              IF failed
              THEN /\ state' = [state EXCEPT ![np] = "UNUSED"]
                   /\ pc' = [pc EXCEPT ![p] = AtUser]
                   /\ last' = ForkCall(p, -1)
                   /\ UNCHANGED <<pgdir, memoryMappings>>
              ELSE /\ pgdir' = ForkPgdir(p, np)
                   /\ memoryMappings' =
                        [memoryMappings EXCEPT ![np] = ChildTable(p, np)]
                   /\ pc' = [pc EXCEPT ![p] = [at |-> "fork_publish", np |-> np]]
                   /\ UNCHANGED <<state, last>>
  /\ UNCHANGED <<killed, ofile, freelist, mem, idata, panicked, kstack>>

\* fork, from the copy of the open files to the return
fork_publish(p) ==
  /\ InKernel(p, "fork_publish")
  /\ LET np == pc[p].np
     IN  /\ ofile' = [ofile EXCEPT ![np] = ofile[p]]
         /\ state' = [state EXCEPT ![np] = "RUNNABLE"]
         /\ last' = ForkCall(p, np)
         /\ pc' = [pc EXCEPT ![p] = AtUser]
  /\ UNCHANGED <<killed, num_mappings, memoryMappings, pgdir, freelist, mem,
                 idata, panicked, kstack>>

ClearedTableKept(tbl) == tbl

\* the table after memset(memoryMappings, 0, sizeof(struct mem_mapping) * 32)
ClearedTable(tbl) == Sparse([k \in Slots |-> ZeroMapping])

\* exit: the open files are closed
exit_close(p) ==
  /\ ~panicked
  /\ state[p] = "RUNNING"
  /\ pc[p] = AtUser
  /\ ofile' = [ofile EXCEPT ![p] = [fd \in {} |-> 0]]
  /\ pc' = [pc EXCEPT ![p] = [at |-> "exit_clear", np |-> 0]]
  /\ UNCHANGED <<state, killed, num_mappings, memoryMappings, pgdir, freelist,
                 mem, idata, panicked, kstack, last>>

\* exit: the mapping table is cleared
exit_clear(p) ==
  /\ InKernel(p, "exit_clear")
  /\ memoryMappings' =
       [memoryMappings EXCEPT ![p] = ClearedTable(memoryMappings[p])]
  /\ num_mappings' = [num_mappings EXCEPT ![p] = 0]
  /\ pc' = [pc EXCEPT ![p] = [at |-> "exit_sched", np |-> 0]]
  /\ UNCHANGED <<state, killed, pgdir, ofile, freelist, mem, idata, panicked,
                 kstack, last>>

\* exit: the process becomes a zombie and enters sched(), never to return
exit_sched(p) ==
  /\ InKernel(p, "exit_sched")
  /\ state' = [state EXCEPT ![p] = "ZOMBIE"]
  /\ pc' = [pc EXCEPT ![p] = [at |-> "sched", np |-> 0]]
  /\ last' = [op |-> "exit", proc |-> p, args |-> <<>>, ret |-> 0]
  /\ UNCHANGED <<killed, num_mappings, memoryMappings, pgdir, ofile, freelist,
                 mem, idata, panicked, kstack>>

\* ------------------------------------------------------------------------
\* Spec: a user program that maps anonymous memory, touches it and unmaps
\* ------------------------------------------------------------------------
Anon == {MAP_PRIVATE, MAP_ANONYMOUS}

Call(addr, length, flags, fd, offset) ==
  [addr |-> addr, length |-> length, prot |-> 3, flags |-> flags, fd |-> fd,
   offset |-> offset]

\* the user program: mmap with one of calls, munmap with one of unmaps, a
\* load or store that traps at one of touches
MmapOf(calls, most) ==
  \E p \in Procs : \E c \in calls :
    /\ num_mappings[p] < most
    /\ sys_mmap(p, c.addr, c.length, c.prot, c.flags, c.fd, c.offset)

MunmapOf(unmaps) ==
  \E p \in Procs : \E c \in unmaps : sys_munmap(p, c.addr, c.length)

TouchOf(touches) ==
  \E p \in Procs : \E va \in touches :
    /\ \A i \in 0 .. (num_mappings[p] - 1) :
         MapAt(memoryMappings[p], i).length <= MaxGrowth * PGSIZE
    /\ PageFault(p, va)

Killed == \E p \in Procs : KilledExit(p)

Range(a, l) == [addr |-> a, length |-> l]

\* calls that pass the argument checks
GoodCalls ==
  {Call(0, PGSIZE, Anon, -1, 0),
   Call(0, PGSIZE + 1, Anon, -1, 0),
   Call(0, PGSIZE, Anon \cup {MAP_GROWSUP}, -1, 0),
   Call(MMAP_AREA_START + PGSIZE, PGSIZE, Anon \cup {MAP_FIXED}, -1, 0),
   Call(MMAP_AREA_END - PGSIZE, PGSIZE + 1, Anon \cup {MAP_FIXED}, -1, 0)}

UnmapCalls ==
  {Range(MMAP_AREA_START, PGSIZE), Range(MMAP_AREA_START + PGSIZE, PGSIZE),
   Range(MMAP_AREA_START + 1, PGSIZE)}

TouchAddrs ==
  {MMAP_AREA_START, MMAP_AREA_START + PGSIZE + 1, MMAP_AREA_START + 3 * PGSIZE}

Mmap == MmapOf(GoodCalls, MaxMaps)
Munmap == MunmapOf(UnmapCalls)
Touch == TouchOf(TouchAddrs)

Next == Mmap \/ Munmap \/ Touch \/ Killed

Spec == Init /\ [][Next]_vars

\* ------------------------------------------------------------------------
\* SpecFill: a user program that maps single pages until the table is full
\* ------------------------------------------------------------------------
OnePage == Call(0, PGSIZE, Anon, -1, 0)

FillMmap == MmapOf({OnePage, Call(0, 0, Anon, -1, 0)}, MAX_MAPPINGS + 1)
FillTouch == TouchOf({MMAP_AREA_START, MMAP_AREA_START + PGSIZE})

NextFill == FillMmap \/ FillTouch

SpecFill == Init /\ [][NextFill]_vars

\* ------------------------------------------------------------------------
\* SpecPlace: a user program that lets the allocator place regions in tables
\* with fixed, grown and unmapped entries
\* ------------------------------------------------------------------------
ArenaSize == MMAP_AREA_END - MMAP_AREA_START

\* calls that one of the argument checks, or the allocator, turns down
BadCalls ==
  {Call(0, 0, Anon, -1, 0),
   Call(0, -PGSIZE, Anon, -1, 0),
   Call(MMAP_AREA_START + 1, PGSIZE, Anon, -1, 0),
   Call(MMAP_AREA_START - PGSIZE, PGSIZE, Anon \cup {MAP_FIXED}, -1, 0),
   Call(MMAP_AREA_END, PGSIZE, Anon \cup {MAP_FIXED}, -1, 0),
   Call(Word - PGSIZE, PGSIZE, Anon, -1, 0),
   Call(0, PGSIZE, {MAP_ANONYMOUS}, -1, 0),
   Call(0, PGSIZE, {MAP_ANONYMOUS, MAP_FIXED, MAP_GROWSUP}, -1, 0),
   Call(0, PGSIZE, Anon, 3, 0),
   Call(0, PGSIZE, Anon, -1, PGSIZE),
   Call(0, PGSIZE, Anon \cup {MAP_FIXED}, -1, 0),
   Call(0, PGSIZE, {MAP_PRIVATE}, -1, 0),
   Call(0, PGSIZE, {MAP_PRIVATE}, NOFILE, 0),
   Call(0, PGSIZE, {MAP_SHARED}, 5, 0),
   Call(0, ArenaSize + 1, Anon, -1, 0)}

PlaceCalls ==
  {Call(0, PGSIZE, Anon, -1, 0),
   Call(0, PGSIZE + 1, Anon, -1, 0),
   Call(0, PGSIZE, Anon \cup {MAP_GROWSUP}, -1, 0),
   Call(MMAP_AREA_START + PGSIZE, PGSIZE, Anon \cup {MAP_FIXED}, -1, 0),
   Call(0, ArenaSize, Anon, -1, 0),
   Call(0, ArenaSize + 1, Anon, -1, 0)}

PlaceMmap == MmapOf(PlaceCalls, MaxMaps)
PlaceMunmap == MunmapOf({Range(MMAP_AREA_START, PGSIZE)})
PlaceTouch == TouchOf({MMAP_AREA_START})

NextPlace == PlaceMmap \/ PlaceMunmap \/ PlaceTouch

SpecPlace == Init /\ [][NextPlace]_vars

\* ------------------------------------------------------------------------
\* SpecArgs: a user program whose mmap calls are mostly refused
\* ------------------------------------------------------------------------
ArgMmap == MmapOf(BadCalls \cup {OnePage, Call(0, ArenaSize, Anon, -1, 0)}, MaxMaps)
ArgTouch == TouchOf({MMAP_AREA_START})

NextArgs == ArgMmap \/ ArgTouch

SpecArgs == Init /\ [][NextArgs]_vars

\* ------------------------------------------------------------------------
\* SpecFile: a user program that maps the file open on descriptor 3, shared
\* and private, loads and stores through the mappings, and unmaps
\* ------------------------------------------------------------------------
WriteOf(stores) ==
  \E p \in Procs : \E st \in stores : UserWrite(p, st.va, st.v)

FileMmap ==
  MmapOf({Call(0, PGSIZE, {MAP_SHARED}, 3, 0), Call(0, PGSIZE, {MAP_PRIVATE}, 3, 0),
          Call(0, PGSIZE, {MAP_SHARED, MAP_ANONYMOUS}, -1, 0)}, MaxMaps)
FileMunmap ==
  MunmapOf({Range(MMAP_AREA_START, PGSIZE), Range(MMAP_AREA_START + PGSIZE, PGSIZE)})
FileTouch == TouchOf({MMAP_AREA_START, MMAP_AREA_START + PGSIZE})
FileWrite ==
  WriteOf({[va |-> MMAP_AREA_START, v |-> 90],
           [va |-> MMAP_AREA_START + PGSIZE + 1, v |-> 90]})

NextFile == FileMmap \/ FileMunmap \/ FileTouch \/ FileWrite

SpecFile == Init /\ [][NextFile]_vars

\* ------------------------------------------------------------------------
\* SpecFork: processes that map private and shared anonymous memory, store
\* to it, fork, unmap and exit
\* ------------------------------------------------------------------------
\* a process maps two pages, private or shared, when it holds no mapping
ForkMmap ==
  \E p \in Procs : \E flags \in {Anon, {MAP_SHARED, MAP_ANONYMOUS}} :
    /\ num_mappings[p] = 0
    /\ sys_mmap(p, 0, PGSIZE + 1, 3, flags, -1, 0)
ForkMunmap == MunmapOf({Range(MMAP_AREA_START, PGSIZE)})
ForkTouch == TouchOf({MMAP_AREA_START, MMAP_AREA_START + PGSIZE})
\* the first process stores 7, the others 9
ForkWrite ==
  \E p \in Procs :
    UserWrite(p, MMAP_AREA_START, IF p = 1 THEN 7 ELSE 9)
\* the runs in which the kernel stack of a child holds what its parent's does
Fork ==
  \E p \in Procs :
    /\ fork(p)
    /\ last'.ret > 0 => kstack'[last'.ret] = kstack[p]
Schedule == \E p \in Procs : scheduler(p)
Exit == \E p \in Procs : exit(p)

NextFork ==
  ForkMmap \/ ForkMunmap \/ ForkTouch \/ ForkWrite \/ Fork \/ Schedule \/ Exit

SpecFork == Init /\ [][NextFork]_vars

\* ------------------------------------------------------------------------
\* SpecCow: processes that map private anonymous memory, store to its first
\* page, fork, unmap and exit
\* ------------------------------------------------------------------------
CowMmap ==
  \E p \in Procs :
    /\ num_mappings[p] = 0
    /\ sys_mmap(p, 0, PGSIZE + 1, 3, Anon, -1, 0)
CowTouch == TouchOf({MMAP_AREA_START})

NextCow ==
  CowMmap \/ ForkMunmap \/ CowTouch \/ ForkWrite \/ Fork \/ Schedule \/ Exit

SpecCow == Init /\ [][NextCow]_vars

\* ------------------------------------------------------------------------
\* SpecGrow: a user program that maps growing and plain anonymous regions
\* and touches pages in them, next to them and far from them
\* ------------------------------------------------------------------------
GrowMmap ==
  MmapOf({Call(0, PGSIZE, Anon \cup {MAP_GROWSUP}, -1, 0),
          Call(0, 3 * PGSIZE, Anon, -1, 0),
          Call(MMAP_AREA_START + 2 * PGSIZE, PGSIZE, Anon \cup {MAP_FIXED}, -1, 0)},
         MaxMaps)
GrowTouch ==
  TouchOf({MMAP_AREA_START, MMAP_AREA_START + PGSIZE,
           MMAP_AREA_START + 2 * PGSIZE + 1, MMAP_AREA_START + 5 * PGSIZE})

NextGrow == GrowMmap \/ GrowTouch

SpecGrow == Init /\ [][NextGrow]_vars

\* ------------------------------------------------------------------------
\* SpecOffset: a user program that maps the second page of the file open on
\* descriptor 3, private and shared, loads from the mappings and unmaps
\* ------------------------------------------------------------------------
\* the file offset every mmap call of the program passes
FileOffset == PGSIZE

OffsetMmap ==
  MmapOf({Call(0, PGSIZE, {MAP_PRIVATE}, 3, FileOffset),
          Call(0, PGSIZE, {MAP_SHARED}, 3, FileOffset)}, MaxMaps)
OffsetMunmap == MunmapOf({Range(MMAP_AREA_START, PGSIZE)})
OffsetTouch == TouchOf({MMAP_AREA_START, MMAP_AREA_START + PGSIZE})

NextOffset == OffsetMmap \/ OffsetMunmap \/ OffsetTouch

SpecOffset == Init /\ [][NextOffset]_vars

\* ------------------------------------------------------------------------
\* SpecSteps: processes that map three pages of private anonymous memory,
\* touch them and fork, with the statements of fork interleaved with what
\* the other processes do
\* ------------------------------------------------------------------------
StepsMmap ==
  \E p \in Procs :
    /\ num_mappings[p] = 0
    /\ sys_mmap(p, 0, 2 * PGSIZE + 1, 3, Anon, -1, 0)
\* every process touches the first page, the first process the others too
StepsTouch ==
  \E p \in Procs :
    \E va \in {MMAP_AREA_START + k * PGSIZE : k \in {0} \cup {j \in 1 .. 2 : p = 1}} :
      PageFault(p, va)
\* the runs in which the kernel stack of a child holds what its parent's does
ForkAlloc ==
  \E p \in Procs :
    /\ fork_alloc(p)
    /\ pc'[p].np > 0 => kstack'[pc'[p].np] = kstack[p]
ForkCopy == \E p \in Procs : fork_copy(p)
ForkPublish == \E p \in Procs : fork_publish(p)

NextSteps ==
  StepsMmap \/ StepsTouch \/ ForkAlloc \/ ForkCopy \/ ForkPublish \/ Schedule

SpecSteps == Init /\ [][NextSteps]_vars

\* ------------------------------------------------------------------------
\* SpecExit: a user program that maps the file open on descriptor 3, shared
\* and private, stores through the mappings and exits
\* ------------------------------------------------------------------------
ExitMmap ==
  MmapOf({Call(0, PGSIZE, {MAP_SHARED}, 3, 0), Call(0, PGSIZE, {MAP_PRIVATE}, 3, 0)},
         MaxMaps)
ExitTouch == TouchOf({MMAP_AREA_START, MMAP_AREA_START + PGSIZE})
ExitWrite == WriteOf({[va |-> MMAP_AREA_START, v |-> 90]})
ExitClose == \E p \in Procs : exit_close(p)
ExitClear == \E p \in Procs : exit_clear(p)
ExitSched == \E p \in Procs : exit_sched(p)

NextExit ==
  ExitMmap \/ ExitTouch \/ ExitWrite \/ ExitClose \/ ExitClear \/ ExitSched

SpecExit == Init /\ [][NextExit]_vars

\* ------------------------------------------------------------------------
\* Vocabulary of the properties
\* ------------------------------------------------------------------------
Live(p) == 0 .. (num_mappings[p] - 1)

\* the range [addr, addr + round_up_page(length)) of a descriptor
RangeLo(m) == m.addr
RangeHi(m) == m.addr + ((m.length + PGSIZE - 1) \div PGSIZE) * PGSIZE
Disjoint(m1, m2) == RangeHi(m1) <= RangeLo(m2) \/ RangeHi(m2) <= RangeLo(m1)

\* the live descriptors of a table of n entries, with their multiplicities
LiveBag(tbl, n) ==
  LET ds == {MapAt(tbl, i) : i \in 0 .. (n - 1)}
  IN  [d \in ds |-> Cardinality({i \in 0 .. (n - 1) : MapAt(tbl, i) = d})]

\* [a, a + l) lies wholly inside descriptor m
Inside(m, a, l) == l > 0 /\ m.addr <= a /\ a + l <= m.addr + m.length

\* the page-aligned addresses of the arena
ArenaPages ==
  {MMAP_AREA_START + k * PGSIZE : k \in 0 .. (ArenaSize \div PGSIZE - 1)}

\* the addresses a region of length bytes may be placed at: inside the arena
\* and meeting the range of no live descriptor
Fits(p, length) ==
  {A \in ArenaPages :
     /\ A + length <= MMAP_AREA_END
     /\ \A i \in Live(p) :
          \/ A + length <= RangeLo(MapAt(memoryMappings[p], i))
          \/ RangeHi(MapAt(memoryMappings[p], i)) <= A}

\* the arguments c of an mmap call are refused whatever the table holds
ArgsRefused(p, c) ==
  \/ c.length <= 0
  \/ /\ c.addr # 0
     /\ \/ c.addr % PGSIZE # 0
        \/ c.addr < MMAP_AREA_START
        \/ c.addr > MMAP_AREA_END - PGSIZE
  \/ (MAP_SHARED \notin c.flags /\ MAP_PRIVATE \notin c.flags)
  \/ (MAP_ANONYMOUS \in c.flags /\ (c.fd # -1 \/ c.offset # 0))
  \/ (MAP_FIXED \in c.flags /\ c.addr = 0)
  \/ (MAP_ANONYMOUS \notin c.flags /\ c.fd \notin DOMAIN ofile[p])

\* the mmap call c is one the service rejects
Rejected(p, c) ==
  ArgsRefused(p, c) \/ (MAP_FIXED \notin c.flags /\ Fits(p, c.length) = {})

\* C1: any two distinct live descriptors of a process cover disjoint ranges
\* [addr, addr + round_up_page(length)), unless both were installed with
\* MAP_FIXED.
C1_RangesDisjoint ==
  \A p \in Procs :
    num_mappings[p] <= MAX_MAPPINGS =>
      \A i \in Live(p) : \A j \in Live(p) :
        i # j =>
          \/ Disjoint(MapAt(memoryMappings[p], i), MapAt(memoryMappings[p], j))
          \/ /\ MAP_FIXED \in MapAt(memoryMappings[p], i).flags
             /\ MAP_FIXED \in MapAt(memoryMappings[p], j).flags

\* C3: every live descriptor lies in the arena: MMAP_AREA_START <= addr and
\* addr + round_up_page(length) <= MMAP_AREA_END.
C3_InsideArena ==
  \A p \in Procs :
    num_mappings[p] <= MAX_MAPPINGS =>
      \A i \in Live(p) :
        /\ MMAP_AREA_START <= RangeLo(MapAt(memoryMappings[p], i))
        /\ RangeHi(MapAt(memoryMappings[p], i)) <= MMAP_AREA_END

\* C5: a successful mmap appends exactly one descriptor (addr the returned
\* address, length the requested length, allocated false) at the old index
\* num_mappings, increments num_mappings, leaves every existing descriptor
\* unchanged, installs no page-table entry and allocates no frame.
C5_MmapAppends ==
  [][\A p \in Procs :
       (last'.op = "mmap" /\ last'.proc = p /\ last'.ret # -1
        /\ num_mappings[p] < MAX_MAPPINGS)
       => /\ num_mappings'[p] = num_mappings[p] + 1
          /\ MapAt(memoryMappings'[p], num_mappings[p]).addr = last'.ret
          /\ MapAt(memoryMappings'[p], num_mappings[p]).length = last'.args.length
          /\ MapAt(memoryMappings'[p], num_mappings[p]).allocated = FALSE
          /\ \A i \in Live(p) :
               MapAt(memoryMappings'[p], i) = MapAt(memoryMappings[p], i)
          /\ pgdir' = pgdir
          /\ freelist' = freelist]_vars

\* C7: munmap(a, l) with [a, a + l) wholly inside a live descriptor d, at
\* whatever index, returns 0, removes d, decreases num_mappings by one and
\* keeps every other live descriptor live and unchanged.
C7_MunmapRemoves ==
  [][\A p \in Procs : \A i \in Live(p) :
       (last'.op = "munmap" /\ last'.proc = p
        /\ Inside(MapAt(memoryMappings[p], i), last'.args.addr, last'.args.length))
       => /\ last'.ret = 0
          /\ num_mappings'[p] = num_mappings[p] - 1
          /\ LiveBag(memoryMappings'[p], num_mappings'[p])
               (+) SetToBag({MapAt(memoryMappings[p], i)})
             = LiveBag(memoryMappings[p], num_mappings[p])]_vars

\* C8: munmap(a, l) for which no live descriptor fully contains [a, a + l)
\* returns -1 and leaves num_mappings and every descriptor unchanged.
C8_MunmapMiss ==
  [][\A p \in Procs :
       (last'.op = "munmap" /\ last'.proc = p
        /\ \A i \in Live(p) :
             ~Inside(MapAt(memoryMappings[p], i), last'.args.addr, last'.args.length))
       => /\ last'.ret = -1
          /\ num_mappings'[p] = num_mappings[p]
          /\ memoryMappings'[p] = memoryMappings[p]]_vars

\* C2: num_mappings never exceeds MAX_MAPPINGS: from an empty table 32
\* successive one-page MAP_PRIVATE|MAP_ANONYMOUS mmap calls succeed, and an
\* mmap issued while num_mappings = 32 returns -1 and leaves the table and
\* num_mappings unchanged.
C2_TableBounded ==
  [][\A p \in Procs :
       /\ num_mappings'[p] <= MAX_MAPPINGS
       /\ (last'.op = "mmap" /\ last'.proc = p)
          => IF num_mappings[p] = MAX_MAPPINGS
             THEN /\ last'.ret = -1
                  /\ num_mappings'[p] = num_mappings[p]
                  /\ memoryMappings'[p] = memoryMappings[p]
             ELSE last'.args = OnePage => last'.ret # -1]_vars

\* C4: a rejected mmap call (bad length, bad hint, neither MAP_SHARED nor
\* MAP_PRIVATE, MAP_ANONYMOUS with a file or an offset, MAP_FIXED without an
\* address, a bad file descriptor, no free slot in the arena) returns -1 and
\* leaves num_mappings, every descriptor and every page-table entry unchanged.
C4_RejectedUnchanged ==
  [][\A p \in Procs :
       (last'.op = "mmap" /\ last'.proc = p /\ Rejected(p, last'.args))
       => /\ last'.ret = -1
          /\ num_mappings'[p] = num_mappings[p]
          /\ memoryMappings'[p] = memoryMappings[p]
          /\ pgdir'[p] = pgdir[p]]_vars

\* a rejected call on a process that holds mappings and a resident page
C4_Witness ==
  /\ last.op = "mmap" /\ last.ret = -1
  /\ MAP_FIXED \in last.args.flags /\ last.args.addr = 0
  /\ ~BadFlags(last.args.flags)
  /\ num_mappings[1] = 1
  /\ DOMAIN pgdir[1] # {}

\* C6: a non-MAP_FIXED mmap places the region at the lowest page-aligned
\* address A >= MMAP_AREA_START with A + length <= MMAP_AREA_END whose
\* [A, A + length) meets no descriptor's [addr, addr + round_up_page(length));
\* when there is no such A the allocator returns 0 and mmap returns -1.
C6_FirstFit ==
  [][\A p \in Procs :
       (last'.op = "mmap" /\ last'.proc = p
        /\ MAP_FIXED \notin last'.args.flags /\ ~ArgsRefused(p, last'.args))
       => LET free == Fits(p, last'.args.length)
          IN  IF free = {}
              THEN /\ find_available_address(p, last'.args.length) = 0
                   /\ last'.ret = -1
              ELSE /\ last'.ret \in free
                   /\ \A A \in free : last'.ret <= A]_vars

\* a region placed above a hole that is too small for it, past a fixed mapping
C6_Witness ==
  /\ last.op = "mmap" /\ MAP_FIXED \notin last.args.flags
  /\ last.args.length = PGSIZE + 1
  /\ last.ret = MMAP_AREA_START + 2 * PGSIZE
  /\ num_mappings[1] = 2
  /\ MapAt(memoryMappings[1], 0).addr = MMAP_AREA_START + PGSIZE
  /\ MAP_FIXED \in MapAt(memoryMappings[1], 0).flags

\* the pages a munmap(a, l) goes through
SweptPages(a, l) == {a + k * PGSIZE : k \in 0 .. ((l - 1) \div PGSIZE)}

\* C9: munmap of a MAP_SHARED file mapping, wherever its descriptor sits in
\* the table, writes the contents of every resident page to the backing
\* inode at offset page_va - descriptor.addr, so that what was stored through
\* the mapping is what the file holds afterwards.
C9_SharedWriteBack ==
  [][\A p \in Procs : \A i \in Live(p) :
       LET d == MapAt(memoryMappings[p], i)
       IN  (last'.op = "munmap" /\ last'.proc = p
            /\ MAP_SHARED \in d.flags /\ MAP_ANONYMOUS \notin d.flags
            /\ Inside(d, last'.args.addr, last'.args.length))
           => \A va \in SweptPages(last'.args.addr, last'.args.length) :
                PTE_P \in walkpgdir(p, va).flags
                => \A o \in 0 .. (PGSIZE - 1) :
                     /\ va - d.addr + o + 1 <= Len(idata'[FileAt(p, d.fd)])
                     /\ idata'[FileAt(p, d.fd)][va - d.addr + o + 1]
                          = mem[walkpgdir(p, va).pa][o]]_vars

\* C10: bytes stored through a file mapping that is not MAP_SHARED never
\* reach the backing file, whatever faults, stores and munmap calls are made.
C10_PrivateNotWritten ==
  \A i \in Inodes : \A k \in 1 .. Len(idata[i]) : ~idata[i][k].priv

\* the resident pages of process p that lie in the range of descriptor d
ResidentIn(p, d) ==
  {a \in DOMAIN pgdir[p] :
     PTE_P \in pgdir[p][a].flags /\ RangeLo(d) <= a /\ a < RangeHi(d)}

\* a fork by p has just returned the child's slot
Forked(p) == last'.op = "fork" /\ last'.proc = p /\ last'.ret > 0

\* C11: right after fork, every page that was present in the parent inside a
\* MAP_PRIVATE descriptor has PTE_COW set and PTE_W clear in the parent, and
\* the child has a PTE at the same address with the same frame and the same
\* flag bits.
C11_ForkMarksCow ==
  [][\A p \in Procs :
       Forked(p) =>
         \A i \in Live(p) :
           MAP_PRIVATE \in MapAt(memoryMappings[p], i).flags =>
             \A a \in ResidentIn(p, MapAt(memoryMappings[p], i)) :
               /\ PTE_COW \in pgdir'[p][a].flags
               /\ PTE_W \notin pgdir'[p][a].flags
               /\ a \in DOMAIN pgdir'[last'.ret]
               /\ pgdir'[last'.ret][a] = pgdir'[p][a]]_vars

\* a fork of a parent whose private mapping has a resident page
C11_Witness ==
  /\ last.op = "fork" /\ last.proc = 1 /\ last.ret = 2
  /\ num_mappings[1] = 1
  /\ MAP_PRIVATE \in MapAt(memoryMappings[1], 0).flags
  /\ MMAP_AREA_START \in DOMAIN pgdir[1] /\ MMAP_AREA_START \in DOMAIN pgdir[2]
  /\ PTE_COW \in pgdir[1][MMAP_AREA_START].flags
  /\ pgdir[2][MMAP_AREA_START] = pgdir[1][MMAP_AREA_START]

\* C12: right after fork, every page that was present in the parent inside a
\* MAP_SHARED descriptor is mapped in the child at the same address to the
\* same frame, writable and without PTE_COW.
C12_ForkSharesShared ==
  [][\A p \in Procs :
       Forked(p) =>
         \A i \in Live(p) :
           MAP_SHARED \in MapAt(memoryMappings[p], i).flags =>
             \A a \in ResidentIn(p, MapAt(memoryMappings[p], i)) :
               /\ a \in DOMAIN pgdir'[last'.ret]
               /\ pgdir'[last'.ret][a].pa = pgdir'[p][a].pa
               /\ PTE_W \in pgdir'[last'.ret][a].flags
               /\ PTE_COW \notin pgdir'[last'.ret][a].flags]_vars

\* C13: a fault on a page whose PTE has PTE_COW set and PTE_W clear, with a
\* frame left to allocate, returns 1 and takes exactly one frame; the PTE of
\* the faulting process then maps the new frame, a copy of the old one, with
\* PTE_W set, PTE_COW clear and its other flag bits kept, and no PTE of
\* another process changes.
C13_CowFaultCopies ==
  [][\A p \in Procs :
       (last'.op = "fault" /\ last'.proc = p /\ freelist # <<>>
        /\ IsCowFault(walkpgdir(p, last'.args.va)))
       => LET a == PGROUNDDOWN(last'.args.va)
              old == pgdir[p][a]
              new == pgdir'[p][a]
          IN  /\ last'.ret = 1
              /\ freelist' = Tail(freelist)
              /\ new.pa = Head(freelist) /\ new.pa # old.pa
              /\ mem'[new.pa] = mem[old.pa]
              /\ mem'[old.pa] = mem[old.pa]
              /\ new.flags = (old.flags \cup {PTE_W}) \ {PTE_COW}
              /\ \A b \in DOMAIN pgdir[p] \ {a} : pgdir'[p][b] = pgdir[p][b]
              /\ \A q \in Procs \ {p} : pgdir'[q] = pgdir[q]]_vars

\* the child has resolved its fault; the parent still holds the shared frame
C13_Witness ==
  /\ last.op = "fault" /\ last.proc = 2 /\ last.ret = 1
  /\ MMAP_AREA_START \in DOMAIN pgdir[1] /\ MMAP_AREA_START \in DOMAIN pgdir[2]
  /\ PTE_COW \in pgdir[1][MMAP_AREA_START].flags
  /\ PTE_W \in pgdir[2][MMAP_AREA_START].flags
  /\ PTE_COW \notin pgdir[2][MMAP_AREA_START].flags
  /\ pgdir[2][MMAP_AREA_START].pa # pgdir[1][MMAP_AREA_START].pa

\* C14: in every state between operations no PTE of any process has both
\* PTE_COW and PTE_W set.
C14_CowNotWritable ==
  \A p \in Procs : \A a \in DOMAIN pgdir[p] :
    PTE_COW \in pgdir[p][a].flags => PTE_W \notin pgdir[p][a].flags

\* the parent has unmapped and exited with a page still marked, after the
\* child made its own copy
C14_Witness ==
  /\ state[1] = "ZOMBIE" /\ state[2] = "RUNNING"
  /\ MMAP_AREA_START \in DOMAIN pgdir[1] /\ MMAP_AREA_START \in DOMAIN pgdir[2]
  /\ PTE_COW \in pgdir[1][MMAP_AREA_START].flags
  /\ PTE_W \in pgdir[2][MMAP_AREA_START].flags

\* what process q reads at page a
Reads(q, a) == mem[pgdir[q][a].pa]

\* the pages of q that are resident and lie first in a MAP_PRIVATE descriptor
PrivatePages(q) ==
  {a \in DOMAIN pgdir[q] :
     /\ PTE_P \in pgdir[q][a].flags
     /\ Holders(q, a) # {}
     /\ \A i \in Holders(q, a) :
          (\A h \in Holders(q, a) : i <= h)
          => MAP_PRIVATE \in MapAt(memoryMappings[q], i).flags}

\* C15: copy-on-write isolation.  At fork the child reads, in every page of a
\* MAP_PRIVATE mapping that was resident in the parent, what the parent had
\* stored; afterwards a store by one process never changes what another
\* process reads in a page of a MAP_PRIVATE mapping.
C15_CowIsolation ==
  [][\A p \in Procs :
       /\ Forked(p) =>
            \A a \in CowPages(p) :
              /\ a \in DOMAIN pgdir'[last'.ret]
              /\ mem'[pgdir'[last'.ret][a].pa] = Reads(p, a)
       /\ (last'.op = "write" /\ last'.proc = p) =>
            \A q \in Procs \ {p} : \A a \in PrivatePages(q) :
              mem'[pgdir[q][a].pa] = Reads(q, a)]_vars

\* parent stored 7 and forked, the child stored 9, the parent still reads 7
C15_Witness ==
  /\ last.op = "write" /\ last.proc = 2 /\ last.args.v = 9
  /\ MMAP_AREA_START \in PrivatePages(1) /\ MMAP_AREA_START \in PrivatePages(2)
  /\ PTE_COW \in pgdir[1][MMAP_AREA_START].flags
  /\ Reads(1, MMAP_AREA_START)[0].val = 7
  /\ Reads(2, MMAP_AREA_START)[0].val = 9

\* a fault of p that is not a copy-on-write fault has just been handled
Faulted(p) ==
  /\ last'.op = "fault" /\ last'.proc = p
  /\ ~IsCowFault(walkpgdir(p, last'.args.va))

\* the page at a is resident for p after the step, zero-filled, in the frame
\* that headed the free list, with user and write permission
ZeroPageInstalled(p, a) ==
  /\ freelist' = Tail(freelist)
  /\ a \in DOMAIN pgdir'[p]
  /\ pgdir'[p][a] = [pa |-> Head(freelist), flags |-> {PTE_P, PTE_W, PTE_U}]
  /\ mem'[Head(freelist)] = Fill(Byte(0, FALSE))

\* C16: for a MAP_GROWSUP mapping with no mapping above it, a fault in the
\* page that starts at its current end returns 1, extends its length by
\* exactly one page and installs a zero page there; this holds again at the
\* new end.
C16_GrowsAtEnd ==
  [][\A p \in Procs : \A i \in Live(p) :
       LET d == MapAt(memoryMappings[p], i)
       IN  (Faulted(p) /\ Len(freelist) >= 2
            /\ MAP_GROWSUP \in d.flags /\ MAP_ANONYMOUS \in d.flags
            /\ PGROUNDDOWN(last'.args.va) = RangeHi(d)
            /\ \A j \in Live(p) \ {i} : MapAt(memoryMappings[p], j).addr < d.addr)
           => /\ last'.ret = 1
              /\ MapAt(memoryMappings'[p], i).length = d.length + PGSIZE
              /\ ZeroPageInstalled(p, RangeHi(d))]_vars

\* C17: a fault on a MAP_GROWSUP mapping leaves its length unchanged when
\* another mapping starts at its page-rounded end.
C17_NoGrowthIntoNeighbour ==
  [][\A p \in Procs : \A i \in Live(p) :
       LET d == MapAt(memoryMappings[p], i)
       IN  (Faulted(p) /\ MAP_GROWSUP \in d.flags
            /\ \E j \in Live(p) \ {i} : MapAt(memoryMappings[p], j).addr = RangeHi(d))
           => MapAt(memoryMappings'[p], i).length = d.length]_vars

\* C18: a fault at an address inside a MAP_ANONYMOUS mapping whose page is not
\* present, with frames left, returns 1, takes exactly one frame, zero-fills
\* it and installs it at the page of the address with user and write
\* permission; no other page becomes resident.
C18_LazyZeroPage ==
  [][\A p \in Procs :
       (Faulted(p) /\ Len(freelist) >= 2
        /\ PTE_P \notin walkpgdir(p, last'.args.va).flags
        /\ Holders(p, last'.args.va) # {}
        /\ \A i \in Holders(p, last'.args.va) :
             MAP_ANONYMOUS \in MapAt(memoryMappings[p], i).flags)
       => /\ last'.ret = 1
          /\ ZeroPageInstalled(p, PGROUNDDOWN(last'.args.va))
          /\ \A b \in DOMAIN pgdir'[p] \ {PGROUNDDOWN(last'.args.va)} :
               b \in DOMAIN pgdir[p] /\ pgdir'[p][b] = pgdir[p][b]]_vars

\* C19: a fault at an address whose PTE is not a copy-on-write entry and that
\* lies in no live descriptor's [addr, round_up_page(addr + length)) returns
\* -1, takes no frame and changes neither the mapping table nor a PTE.
C19_SegFault ==
  [][\A p \in Procs :
       (Faulted(p)
        /\ \A i \in Live(p) :
             \/ last'.args.va < RangeLo(MapAt(memoryMappings[p], i))
             \/ last'.args.va >= RangeHi(MapAt(memoryMappings[p], i)))
       => /\ last'.ret = -1
          /\ UNCHANGED <<freelist, mem, memoryMappings, num_mappings, pgdir>>]_vars

\* a fault below the first mapping of a process that holds a resident page
C19_Witness ==
  /\ last.op = "fault" /\ last.ret = -1 /\ killed[1]
  /\ last.args.va = MMAP_AREA_START + PGSIZE
  /\ num_mappings[1] = 2
  /\ MapAt(memoryMappings[1], 0).addr = MMAP_AREA_START + 2 * PGSIZE
  /\ MMAP_AREA_START + 2 * PGSIZE \in DOMAIN pgdir[1]

\* C20: when the fault handler cannot install the PTE after it took a frame,
\* it frees the frame and returns -1: a return of 1 from a fault that is not
\* a copy-on-write fault leaves the page of the address present.
C20_InstallFailure ==
  [][\A p \in Procs :
       (Faulted(p) /\ last'.ret = 1)
       => /\ PGROUNDDOWN(last'.args.va) \in DOMAIN pgdir'[p]
          /\ PTE_P \in pgdir'[p][PGROUNDDOWN(last'.args.va)].flags]_vars

\* C21: a fault at va inside a file-backed descriptor created by mmap with
\* file offset off installs a page that holds the bytes of the backing file
\* from offset (round_down_page(va) - addr) + off on; here every descriptor
\* was created with off = FileOffset.
C21_FillFromOffset ==
  [][\A p \in Procs :
       (Faulted(p) /\ last'.ret = 1 /\ Holders(p, last'.args.va) # {}
        /\ PGROUNDDOWN(last'.args.va) \in DOMAIN pgdir'[p])
       => LET a == PGROUNDDOWN(last'.args.va)
              i == CHOOSE k \in Holders(p, a) : \A h \in Holders(p, a) : k <= h
              d == MapAt(memoryMappings[p], i)
              data == idata[FileAt(p, d.fd)]
              from == (a - d.addr) + FileOffset
          IN  MAP_ANONYMOUS \notin d.flags
              => \A o \in 0 .. (PGSIZE - 1) :
                   from + o + 1 <= Len(data)
                   => mem'[pgdir'[p][a].pa][o] = data[from + o + 1]]_vars

\* C22: after munmap returns 0 no page of the unmapped range is present in
\* the caller's page table, and the frames that were resident there are back
\* on the free list.
C22_MunmapReleasesPages ==
  [][\A p \in Procs :
       (last'.op = "munmap" /\ last'.proc = p /\ last'.ret = 0)
       => \A va \in SweptPages(last'.args.addr, last'.args.length) :
            LET a == PGROUNDDOWN(va)
            IN  /\ a \in DOMAIN pgdir'[p] => PTE_P \notin pgdir'[p][a].flags
                /\ PTE_P \in walkpgdir(p, a).flags
                   => \E k \in 1 .. Len(freelist') :
                        freelist'[k] = walkpgdir(p, a).pa]_vars

\* process p is inside fork before or after the step
InFork(p) ==
  \/ pc[p].at \in {"fork_copy", "fork_publish"}
  \/ pc'[p].at \in {"fork_copy", "fork_publish"}

\* the step makes slot c, the child of the fork p is inside, RUNNABLE
Published(p, c) ==
  /\ pc[p].np = c \/ pc'[p].np = c
  /\ state[c] # "RUNNABLE" /\ state'[c] = "RUNNABLE"

\* C23: at the moment fork marks the child RUNNABLE, the child's num_mappings
\* equals the parent's, child descriptor i equals parent descriptor i for
\* every i below num_mappings, and the child holds the copy-on-write PTE of
\* every resident page of the parent's MAP_PRIVATE mappings; no step taken
\* while the parent is inside fork changes the parent's mapping table.
C23_ForkOrder ==
  [][\A p \in Procs :
       /\ \A c \in Procs :
            Published(p, c) =>
              /\ num_mappings'[c] = num_mappings'[p]
              /\ \A i \in 0 .. (num_mappings'[p] - 1) :
                   MapAt(memoryMappings'[c], i) = MapAt(memoryMappings'[p], i)
              /\ \A i \in 0 .. (num_mappings'[p] - 1) :
                   MAP_PRIVATE \in MapAt(memoryMappings'[p], i).flags =>
                     \A a \in ForkSweep(MapAt(memoryMappings'[p], i)) :
                       (a \in DOMAIN pgdir'[p] /\ PTE_P \in pgdir'[p][a].flags)
                       => /\ a \in DOMAIN pgdir'[c]
                          /\ pgdir'[c][a] = pgdir'[p][a]
                          /\ PTE_COW \in pgdir'[c][a].flags
                          /\ PTE_W \notin pgdir'[c][a].flags
       /\ InFork(p) =>
            /\ memoryMappings'[p] = memoryMappings[p]
            /\ num_mappings'[p] = num_mappings[p]]_vars

\* the child of a parent with a resident private page has just been made
\* RUNNABLE
C23_Witness ==
  /\ last.op = "fork" /\ last.proc = 1 /\ last.ret = 2
  /\ pc[1] = AtUser /\ state[2] = "RUNNABLE"
  /\ num_mappings[1] = 1 /\ num_mappings[2] = 1
  /\ MapAt(memoryMappings[2], 0) = MapAt(memoryMappings[1], 0)
  /\ MMAP_AREA_START \in DOMAIN pgdir[2]
  /\ PTE_COW \in pgdir[2][MMAP_AREA_START].flags

\* the step is one of exit run by p
ExitStep(p) ==
  /\ pc'[p] # pc[p]
  /\ \/ pc[p].at \in {"exit_clear", "exit_sched"}
     \/ pc'[p].at \in {"exit_clear", "exit_sched"}

\* C24: a process in the ZOMBIE state has num_mappings 0 and an all-zero
\* mapping table, the table was already cleared in the state from which it
\* became ZOMBIE, and no step of exit writes to a backing file.
C24_ZombieCleared ==
  [][\A p \in Procs :
       /\ state'[p] = "ZOMBIE" =>
            num_mappings'[p] = 0 /\ DOMAIN memoryMappings'[p] = {}
       /\ (state[p] # "ZOMBIE" /\ state'[p] = "ZOMBIE") =>
            num_mappings[p] = 0 /\ DOMAIN memoryMappings[p] = {}
       /\ ExitStep(p) => idata' = idata]_vars

\* a zombie that had stored 90 through a shared file mapping: the page is
\* still in its frame, the file still holds what it held
C24_Witness ==
  /\ state[1] = "ZOMBIE" /\ last.op = "exit" /\ last.proc = 1
  /\ num_mappings[1] = 0 /\ DOMAIN memoryMappings[1] = {}
  /\ MMAP_AREA_START \in DOMAIN pgdir[1]
  /\ mem[pgdir[1][MMAP_AREA_START].pa][0] = Byte(90, FALSE)
  /\ idata[1][1] = Byte(65, FALSE)
====
